---- MODULE Spec2Model ----
(***************************************************************************)
(* Model of the thapar-task-hub marketplace: the relational tables, their *)
(* row-level policies and the signup trigger (SQL migrations), and the    *)
(* Dashboard / ReviewModal / CreateTaskModal handlers that act on them.   *)
(* Every browser session keeps its own lists (tasks, myTasks,             *)
(* assignedTasks, myReviews), which are only as fresh as its last fetch.  *)
(***************************************************************************)
EXTENDS Integers, FiniteSets, Sequences, TLC

\* ------------------------------------------------------------------ bounds
MaxTasks == 2
\* tasks posted through the dashboard (CreateTaskModal)
MaxPosted == 1
MaxAssignments == 2
MaxReviews == 2
\* review rows stored through direct table access
MaxApiReviews == 1
\* task and assignment rows in the runs of requests on those two tables
MaxTableTasks == 1
MaxTableAssignments == 1
\* with the fetches in flight: fetchAllData runs and timers under way in
\* one session, fetch requests that fail, and tasks accepted
MaxRuns == 2
MaxFailures == 1
MaxAccepts == 1

\* ------------------------------------------------------------ value domains
NULL == "null"
Users == {"u1", "u2", "u3"}
\* the users whose requests and rows are tried in direct table access
ApiUsers == {"u1", "u2"}
\* browser sessions: s1 is u1's, s2 and s3 are two sessions of u2
Sessions == {"s1", "s2", "s3"}
user == [s \in Sessions |-> IF s = "s1" THEN "u1" ELSE "u2"]
TaskIds == 1..MaxTasks
AssignmentIds == 1..MaxAssignments
\* the values the star picker can hold when the form is submitted (0 = none)
Ratings == {0, 5}
Timestamp == "ts"

\* signup inputs
Names == {"n1"}
Emails == {"e1"}
Phones == {"", "p1"}
\* rows inserted into auth.users by an email signup: the email is present,
\* the metadata name and phone may be missing
NewAuthRecords ==
  [id : Users, email : Emails, name : Names \cup {NULL}, phone : Phones \cup {NULL}]

VARIABLES
  auth_users,        \* auth.users: function from the ids present to records
  public_users,      \* public.users: function from the ids present to rows
  public_tasks,      \* public.tasks: function from the ids present to rows
  task_assignments,  \* public.task_assignments: set of rows
  reviews,           \* public.reviews: set of rows
  nextAssignmentId,  \* number of assignment rows ever inserted, plus one
  tasks,             \* Dashboard state per session: Browse list
  myTasks,           \* Dashboard state per session: My Posted Tasks
  assignedTasks,     \* Dashboard state per session: Assigned to Me
  myReviews,         \* Dashboard state per session
  selectedTask,      \* Dashboard state per session
  reviewModalOpen,   \* Dashboard state per session
  reviewRequest,     \* ReviewModal per session: the review being submitted
  loading,           \* Dashboard state per session
  runs,              \* per session: the fetchAllData runs not yet settled
  timers,            \* per session: setTimeout callbacks of acceptTask not yet run
  failures,          \* number of fetch requests that have failed
  last               \* the last request or handler that ran, and its outcome

db == <<auth_users, public_users, public_tasks, task_assignments, reviews, nextAssignmentId>>
views == <<tasks, myTasks, assignedTasks, myReviews>>
modal == <<selectedTask, reviewModalOpen, reviewRequest>>
pending == <<loading, runs, timers, failures>>
vars == <<auth_users, public_users, public_tasks, task_assignments, reviews,
          nextAssignmentId, tasks, myTasks, assignedTasks, myReviews,
          selectedTask, reviewModalOpen, reviewRequest, loading, runs, timers, failures, last>>

\* =================================================================== schema
\* public.tasks columns modelled: poster_id, price, status, deadline
TaskStatuses == {"open", "accepted", "completed"}

\* a row as the insert stores it: a column the request leaves out takes its
\* default (status 'open'; deadline has none and stays NULL).  price has no
\* default either, so a request without it has no price field here.
TaskDefaults(req) ==
  [c \in DOMAIN req \cup {"status", "deadline"} |->
     IF c \in DOMAIN req THEN req[c]
     ELSE IF c = "status" THEN "open" ELSE NULL]

\* the constraints of public.tasks on a row: poster_id references
\* public.users, price is "not null check (price >= 0)", status is
\* "check (status in (...))" on a nullable column, and a check constraint
\* is satisfied when its expression is NULL
TasksConstraints(row, PU) ==
  /\ row.poster_id \in DOMAIN PU
  /\ "price" \in DOMAIN row
  /\ row.price >= 0
  /\ (row.status = NULL \/ row.status \in TaskStatuses)

AssignmentsOf(TA, t) == {a \in TA : a.task_id = t}

\* ============================================================ RLS policies
\* policy "Posters can create tasks"
PostersCanCreateTasks(uid, row) == uid = row.poster_id

\* a policy that lets every caller update every task
AnyoneCanUpdateTasks(uid, row) == TRUE

\* policy "Posters can update own tasks"; it has no "with check", so the
\* same expression is applied to the row the update produces
PostersCanUpdateOwnTasks(uid, row) == uid = row.poster_id

\* policy "Posters can delete own tasks"
PostersCanDeleteOwnTasks(uid, row) == uid = row.poster_id

\* a policy that lets every caller read every assignment
AnyoneCanViewAssignments(uid, a, T) == TRUE

\* policy "Users can view assignments for their tasks or assignments"
UsersCanViewAssignments(uid, a, T) ==
  \/ uid = a.tasker_id
  \/ uid \in {T[t].poster_id : t \in {x \in DOMAIN T : x = a.task_id}}

\* policy "Taskers can create assignments"
TaskersCanCreateAssignments(uid, row) == uid = row.tasker_id

\* a policy that lets every caller update every assignment
AnyoneCanUpdateAssignments(uid, a) == TRUE

\* policy "Taskers can update their assignments"; it has no "with check",
\* so the same expression is applied to the row the update produces
TaskersCanUpdateAssignments(uid, a) == uid = a.tasker_id

\* policy "Users can create reviews for completed tasks".  Inside the
\* subquery the unqualified column task_id resolves to the innermost
\* relation that has such a column, ta (task_assignments), so the condition
\* "ta.task_id = task_id" compares the assignment's column with itself.
UsersCanCreateReviews(uid, row, T, TA) ==
  /\ uid = row.reviewer_id
  /\ \E ta \in TA : \E t \in DOMAIN T :
       /\ ta.task_id = t
       /\ ta.task_id = ta.task_id /\ ta.completed_at # NULL
       /\ (uid = T[t].poster_id \/ uid = ta.tasker_id)

\* =================================================== server-side procedures
\* trigger on task_assignments insert ("DB trigger (status update)"):
\* an open task becomes accepted
AssignmentStatusTrigger(T, row) ==
  IF row.task_id \in DOMAIN T /\ T[row.task_id].status = "open"
  THEN [T EXCEPT ![row.task_id].status = "accepted"]
  ELSE T

\* rpc mark_task_completed(p_task_id): who may call it, and on what
MarkTaskCompletedAllowed(uid, t, T, TA) ==
  /\ t \in DOMAIN T
  /\ uid = T[t].poster_id
  /\ T[t].status = "accepted"
  /\ \E a \in AssignmentsOf(TA, t) : a.completed_at = NULL

mark_task_completed_tasks(t, T) == [T EXCEPT ![t].status = "completed"]

mark_task_completed_assignments(t, TA) ==
  {IF a.task_id = t /\ a.completed_at = NULL
   THEN [a EXCEPT !.completed_at = Timestamp] ELSE a : a \in TA}

\* rpc mark_task_unassign(p_task_id)
MarkTaskUnassignAllowed(uid, t, T, TA) ==
  /\ t \in DOMAIN T
  /\ uid = T[t].poster_id
  /\ T[t].status = "accepted"
  /\ \E a \in AssignmentsOf(TA, t) : a.completed_at = NULL

mark_task_unassign_tasks(t, T) == [T EXCEPT ![t].status = "open"]

mark_task_unassign_assignments(t, TA) ==
  {a \in TA : ~(a.task_id = t /\ a.completed_at = NULL)}

\* ================================================================== fetches
\* fetchTasks without the filter on status
fetchTasksAnyStatus(uid, T) ==
  {t \in DOMAIN T : T[t].poster_id # uid}

\* fetchTasks without the filter on poster_id
fetchTasksOwnToo(uid, T) ==
  {t \in DOMAIN T : T[t].status = "open"}

\* fetchTasks: open tasks not posted by the current user
fetchTasks(uid, T) ==
  {t \in DOMAIN T : T[t].status = "open" /\ T[t].poster_id # uid}

\* the embedded task_assignments list of one task, as the caller may read
\* it; the query gives no order, so any visible row may come first
EmbeddedAssignments(uid, t, T, TA) ==
  LET vis == {a \in AssignmentsOf(TA, t) : UsersCanViewAssignments(uid, a, T)}
  IN  IF vis = {} THEN {<< >>}
      ELSE {<<[tasker_id |-> a.tasker_id, completed_at |-> a.completed_at]>> : a \in vis}

\* fetchMyTasks: the caller's own tasks with their embedded assignments;
\* the results the query can return, one per choice of embedded orders.
\* Only element [0] of the embedded list is ever read by the Dashboard, so
\* the list is kept up to its first element.
MyTaskRows(uid, t, T, TA) ==
  {[id |-> t, poster_id |-> T[t].poster_id, price |-> T[t].price,
    status |-> T[t].status, deadline |-> T[t].deadline,
    task_assignments |-> e] : e \in EmbeddedAssignments(uid, t, T, TA)}

fetchMyTasks(uid, T, TA) ==
  LET mine == {t \in DOMAIN T : T[t].poster_id = uid}
      rows == UNION {MyTaskRows(uid, t, T, TA) : t \in mine}
  IN  {m \in SUBSET rows :
         \A t \in mine : Cardinality({r \in m : r.id = t}) = 1}

\* fetchAssignedTasks: the caller's assignment rows, each with its task
\* embedded as (id, poster_id, price); the embedded task carries neither status
\* nor task_assignments
fetchAssignedTasks(uid, T, TA) ==
  {[id |-> a.id, completed_at |-> a.completed_at,
    tasks |-> [id |-> a.task_id, poster_id |-> T[a.task_id].poster_id,
               price |-> T[a.task_id].price]] :
     a \in {x \in TA : x.tasker_id = uid /\ UsersCanViewAssignments(uid, x, T)}}

\* fetchMyReviews
fetchMyReviews(uid, R) ==
  {[task_id |-> r.task_id, reviewer_id |-> r.reviewer_id] :
     r \in {x \in R : x.reviewer_id = uid}}

\* fetchAllData for session s against the tables T, TA, R
fetchAllData(s, T, TA, R) ==
  /\ tasks' = [tasks EXCEPT ![s] = fetchTasks(user[s], T)]
  /\ \E m \in fetchMyTasks(user[s], T, TA) : myTasks' = [myTasks EXCEPT ![s] = m]
  /\ assignedTasks' = [assignedTasks EXCEPT ![s] = fetchAssignedTasks(user[s], T, TA)]
  /\ myReviews' = [myReviews EXCEPT ![s] = fetchMyReviews(user[s], R)]

\* the record of a dashboard handler that ran: its session and user, its
\* argument, and the title of the toast it showed
Did(op, s, arg, outcome) ==
  [op |-> op, s |-> s, uid |-> user[s], arg |-> arg, outcome |-> outcome]

\* the record of a request made straight to the backend by caller uid
Called(op, uid, arg, outcome) ==
  [op |-> op, s |-> NULL, uid |-> uid, arg |-> arg, outcome |-> outcome]

\* ===================================================================== Init
Profile(u) == [name |-> "n1", phone |-> NULL, role |-> "both"]

Init ==
  /\ auth_users = [u \in Users |-> [email |-> "e1", name |-> "n1", phone |-> NULL]]
  /\ public_users = [u \in Users |-> Profile(u)]
  /\ public_tasks = << >>
  /\ task_assignments = {}
  /\ reviews = {}
  /\ nextAssignmentId = 1
  /\ tasks = [s \in Sessions |-> {}]
  /\ myTasks = [s \in Sessions |-> {}]
  /\ assignedTasks = [s \in Sessions |-> {}]
  /\ myReviews = [s \in Sessions |-> {}]
  /\ selectedTask = [s \in Sessions |-> << >>]
  /\ reviewModalOpen = [s \in Sessions |-> FALSE]
  /\ reviewRequest = [s \in Sessions |-> << >>]
  /\ loading = [s \in Sessions |-> FALSE]
  /\ runs = [s \in Sessions |-> << >>]
  /\ timers = [s \in Sessions |-> 0]
  /\ failures = 0
  /\ last = [op |-> "init", s |-> NULL, uid |-> NULL, arg |-> NULL, outcome |-> NULL]

\* ======================================================= Dashboard handlers
\* useEffect -> fetchAllData: a session (re)loads its dashboard
Load(s) ==
  /\ fetchAllData(s, public_tasks, task_assignments, reviews)
  /\ last' = Did("fetchAllData", s, NULL, NULL)
  /\ UNCHANGED <<db, modal, pending>>

\* ------------------------------------------------------- CreateTaskModal
\* Text is a sequence of characters.  Str(l, n, r) is n letters with l
\* blanks before and r blanks after.
Str(l, n, r) == [i \in 1..(l + n + r) |-> IF i <= l \/ i > l + n THEN " " ELSE "a"]

WhiteSpace == {" "}

RECURSIVE trimStart(_)
trimStart(str) ==
  IF str # << >> /\ Head(str) \in WhiteSpace THEN trimStart(Tail(str)) ELSE str

RECURSIVE trimEnd(_)
trimEnd(str) ==
  IF str # << >> /\ str[Len(str)] \in WhiteSpace
  THEN trimEnd(SubSeq(str, 1, Len(str) - 1)) ELSE str

\* String.prototype.trim, as z.string().trim() applies it
trim(str) == trimEnd(trimStart(str))

Digit == [c \in {"0", "1", "2", "3", "4", "5", "6", "7", "8", "9"} |->
            CASE c = "0" -> 0 [] c = "1" -> 1 [] c = "2" -> 2 [] c = "3" -> 3
              [] c = "4" -> 4 [] c = "5" -> 5 [] c = "6" -> 6 [] c = "7" -> 7
              [] c = "8" -> 8 [] c = "9" -> 9]

\* the longest prefix of str made of digits
RECURSIVE DigitPrefix(_)
DigitPrefix(str) ==
  IF str # << >> /\ Head(str) \in DOMAIN Digit
  THEN <<Head(str)>> \o DigitPrefix(Tail(str)) ELSE << >>

RECURSIVE DigitsValue(_)
DigitsValue(ds) ==
  IF ds = << >> THEN 0
  ELSE 10 * DigitsValue(SubSeq(ds, 1, Len(ds) - 1)) + Digit[ds[Len(ds)]]

\* parseFloat on whole-number text: leading blanks are skipped, a sign is
\* read, then the digits up to the first other character; no digit gives
\* NaN.  A number is [nan |-> TRUE] or [nan |-> FALSE, num |-> n].
parseFloat(str) ==
  LET t == trimStart(str)
      neg == t # << >> /\ Head(t) = "-"
      ds == DigitPrefix(IF neg THEN Tail(t) ELSE t)
  IN  IF ds = << >> THEN [nan |-> TRUE]
      ELSE [nan |-> FALSE, num |-> IF neg THEN 0 - DigitsValue(ds) ELSE DigitsValue(ds)]

\* the schema without .trim(): lengths are those of the text as typed
taskSchemaUntrimmed(input) ==
  LET ok == /\ Len(input.title) >= 5 /\ Len(input.title) <= 100
            /\ Len(input.description) <= 500
            /\ ~input.price.nan
            /\ input.price.num >= 10 /\ input.price.num <= 10000
  IN  IF ok THEN [error |-> FALSE,
                  data |-> [title |-> input.title, description |-> input.description,
                            price |-> input.price.num, deadline |-> input.deadline]]
      ELSE [error |-> TRUE]

\* taskSchema.parse(...): whether it throws a ZodError, and the validated
\* data.  title: trim, min 5, max 100; description: trim, max 500; price:
\* a number (NaN is not one), min 10, max 10000; deadline: any string.
taskSchema(input) ==
  LET title == trim(input.title)
      description == trim(input.description)
      ok == /\ Len(title) >= 5 /\ Len(title) <= 100
            /\ Len(description) <= 500
            /\ ~input.price.nan
            /\ input.price.num >= 10 /\ input.price.num <= 10000
  IN  IF ok THEN [error |-> FALSE,
                  data |-> [title |-> title, description |-> description,
                            price |-> input.price.num, deadline |-> input.deadline]]
      ELSE [error |-> TRUE]

\* the form contents tried.  The price field is an <input type="number">,
\* whose value is the empty string or the text of a number.
Titles == {Str(0, 4, 0), Str(1, 4, 1), Str(0, 5, 0), Str(2, 100, 2), Str(0, 101, 0)}
Descriptions == {Str(0, 0, 0), Str(1, 500, 1), Str(0, 501, 0)}
PriceInputs == {<< >>, <<"9">>, <<"1", "0">>, <<"1", "0", "0", "0", "0">>,
                <<"1", "0", "0", "0", "1">>, <<"-", "5", "0">>}
DeadlineInputs == {"", Timestamp}
Forms ==
  [title : Titles, description : {Str(0, 0, 0)},
   price : PriceInputs, deadline : DeadlineInputs]
  \cup [title : {Str(0, 5, 0)}, description : Descriptions,
        price : {<<"1", "0">>}, deadline : {""}]
\* the form filled in by the sessions of the dashboard
DashboardForms == {[title |-> Str(0, 5, 0), description |-> Str(0, 0, 0),
                    price |-> <<"1", "0">>, deadline |-> ""]}

\* the tasks insert as the database performs it
InsertTaskOk(uid, row) ==
  /\ PostersCanCreateTasks(uid, row)
  /\ TasksConstraints(row, public_users)

\* the smallest id no task row has
NewTaskId == CHOOSE t \in 1..(MaxTasks + 1) :
               /\ t \notin DOMAIN public_tasks
               /\ \A x \in 1..(MaxTasks + 1) : x < t => x \in DOMAIN public_tasks

\* CreateTaskModal.handleSubmit on the form contents formData, then
\* onTaskCreated (fetchMyTasks only); requestOk = FALSE is an insert request
\* that does not reach the database
CreateTask(s, formData, requestOk) ==
  /\ Cardinality(DOMAIN public_tasks) < MaxPosted
  /\ LET validatedData ==
           taskSchema([title |-> formData.title, description |-> formData.description,
                       price |-> parseFloat(formData.price),
                       deadline |-> formData.deadline])
     IN
     IF validatedData.error
     THEN /\ last' = Did("createTask", s, formData, "Validation Error")
          /\ UNCHANGED <<public_tasks, myTasks>>
     ELSE LET taskData == [poster_id |-> user[s],
                           price |-> validatedData.data.price,
                           status |-> "open",
                           deadline |-> IF validatedData.data.deadline = ""
                                        THEN NULL ELSE validatedData.data.deadline]
              T == (NewTaskId :> taskData) @@ public_tasks
          IN  IF requestOk /\ InsertTaskOk(user[s], taskData)
              THEN /\ public_tasks' = T
                   /\ \E m \in fetchMyTasks(user[s], T, task_assignments) :
                        myTasks' = [myTasks EXCEPT ![s] = m]
                   /\ last' = Did("createTask", s, formData, "Task Created!")
              ELSE /\ last' = Did("createTask", s, formData, "Error")
                   /\ UNCHANGED <<public_tasks, myTasks>>
  /\ UNCHANGED <<auth_users, public_users, task_assignments, reviews,
                 nextAssignmentId, tasks, assignedTasks, myReviews, modal, pending>>

\* the row acceptTask sends, and the insert as the database performs it
acceptTaskRow(s, taskId) == [task_id |-> taskId, tasker_id |-> user[s]]

\* the insert with the policy alone, the two "references" left out
InsertAssignmentOkNoReferences(uid, row, T) == TaskersCanCreateAssignments(uid, row)

InsertAssignmentOk(uid, row, T) ==
  /\ TaskersCanCreateAssignments(uid, row)
  /\ row.task_id \in DOMAIN T
  /\ row.tasker_id \in DOMAIN public_users

\* "if (assignError) throw assignError": whether acceptTask takes its
\* catch branch
acceptTaskIgnoresError(assignError) == FALSE

acceptTaskThrows(assignError) == assignError

\* acceptTask(taskId), offered on the cards of the Browse list;
\* requestOk = FALSE is a request that does not reach the database
acceptTask(s, taskId, requestOk) ==
  /\ taskId \in tasks[s]
  /\ nextAssignmentId <= MaxAssignments
  /\ LET row == acceptTaskRow(s, taskId)
         assignError == ~(requestOk /\ InsertAssignmentOk(user[s], row, public_tasks))
         TA == IF assignError THEN task_assignments
               ELSE task_assignments \cup
                      {[id |-> nextAssignmentId, task_id |-> row.task_id,
                        tasker_id |-> row.tasker_id, completed_at |-> NULL]}
         T == IF assignError THEN public_tasks
              ELSE AssignmentStatusTrigger(public_tasks, row)
     IN  /\ task_assignments' = TA
         /\ public_tasks' = T
         /\ nextAssignmentId' = IF assignError THEN nextAssignmentId
                                ELSE nextAssignmentId + 1
         /\ IF acceptTaskThrows(assignError)
            THEN /\ last' = Did("acceptTask", s, taskId, "Error")
                 /\ UNCHANGED views
            ELSE /\ fetchAllData(s, T, TA, reviews)
                 /\ last' = Did("acceptTask", s, taskId, "Task Accepted!")
  /\ UNCHANGED <<auth_users, public_users, reviews, modal, pending>>

\* supabase.rpc(fn, {p_task_id}): the outcome and the tables afterwards
rpc(fn, uid, t, T, TA) ==
  IF fn = "mark_task_completed" /\ MarkTaskCompletedAllowed(uid, t, T, TA)
  THEN [error |-> FALSE, T |-> mark_task_completed_tasks(t, T),
        TA |-> mark_task_completed_assignments(t, TA)]
  ELSE IF fn = "mark_task_unassign" /\ MarkTaskUnassignAllowed(uid, t, T, TA)
  THEN [error |-> FALSE, T |-> mark_task_unassign_tasks(t, T),
        TA |-> mark_task_unassign_assignments(t, TA)]
  ELSE [error |-> TRUE, T |-> T, TA |-> TA]

\* ------------------------------------------------------------- TaskCard
\* task.task_assignments?.[0]?.completed_at and ...?.tasker_id; NULL stands
\* for undefined as well
FirstCompletedAt(task) ==
  IF "task_assignments" \in DOMAIN task /\ Len(task.task_assignments) > 0
  THEN task.task_assignments[1].completed_at ELSE NULL

FirstTaskerId(task) ==
  IF "task_assignments" \in DOMAIN task /\ Len(task.task_assignments) > 0
  THEN task.task_assignments[1].tasker_id ELSE NULL

StatusOf(task) == IF "status" \in DOMAIN task THEN task.status ELSE NULL

alreadyReviewed(s, task) ==
  \E r \in myReviews[s] : r.task_id = task.id /\ r.reviewer_id = user[s]

\* TaskCard with the poster's buttons shown whatever the status
TaskCardAnyStatus(s, task, type) ==
  (IF type = "browse" THEN {"Accept Task"} ELSE {})
  \cup (IF type = "my-tasks"
        THEN {"Mark as Complete"} \cup
             (IF FirstCompletedAt(task) = NULL THEN {"Unassign"} ELSE {})
        ELSE {})
  \cup (IF type \in {"my-tasks", "assigned-to-me"}
           /\ FirstCompletedAt(task) # NULL /\ ~alreadyReviewed(s, task)
        THEN {"Leave Review"} ELSE {})
  \cup (IF type \in {"my-tasks", "assigned-to-me"}
           /\ FirstCompletedAt(task) # NULL /\ alreadyReviewed(s, task)
        THEN {"Review Submitted"} ELSE {})

\* the action buttons TaskCard renders for a task in a tab
TaskCard(s, task, type) ==
  (IF type = "browse" THEN {"Accept Task"} ELSE {})
  \cup (IF type = "my-tasks" /\ StatusOf(task) = "accepted"
        THEN {"Mark as Complete"} \cup
             (IF FirstCompletedAt(task) = NULL THEN {"Unassign"} ELSE {})
        ELSE {})
  \cup (IF type \in {"my-tasks", "assigned-to-me"}
           /\ FirstCompletedAt(task) # NULL /\ ~alreadyReviewed(s, task)
        THEN {"Leave Review"} ELSE {})
  \cup (IF type \in {"my-tasks", "assigned-to-me"}
           /\ FirstCompletedAt(task) # NULL /\ alreadyReviewed(s, task)
        THEN {"Review Submitted"} ELSE {})

\* the cards of the two tabs that can carry review buttons
MyTaskCards(s) == myTasks[s]
AssignedCards(s) == {a.tasks : a \in assignedTasks[s]}

\* the rpc names the two handlers call
markTaskCompleteRpcUnassign == "mark_task_unassign"

markTaskCompleteRpc == "mark_task_completed"

markTaskUnassignRpcCompleted == "mark_task_completed"

markTaskUnassignRpc == "mark_task_unassign"

\* "if (error) throw error" in markTaskComplete
markTaskCompleteIgnoresError(error) == FALSE

markTaskCompleteThrows(error) == error

\* markTaskComplete(taskId), offered on My Posted Tasks cards
markTaskComplete(s, taskId, requestOk) ==
  /\ \E task \in MyTaskCards(s) :
       task.id = taskId /\ "Mark as Complete" \in TaskCard(s, task, "my-tasks")
  /\ LET r == IF requestOk
              THEN rpc(markTaskCompleteRpc, user[s], taskId, public_tasks, task_assignments)
              ELSE [error |-> TRUE, T |-> public_tasks, TA |-> task_assignments]
     IN  /\ public_tasks' = r.T
         /\ task_assignments' = r.TA
         /\ IF markTaskCompleteThrows(r.error)
            THEN /\ last' = Did("markTaskComplete", s, taskId, "Error")
                 /\ UNCHANGED views
            ELSE /\ fetchAllData(s, r.T, r.TA, reviews)
                 /\ last' = Did("markTaskComplete", s, taskId, "Task Completed!")
  /\ UNCHANGED <<auth_users, public_users, reviews, nextAssignmentId, modal, pending>>

\* markTaskUnassign(taskId), offered on My Posted Tasks cards
markTaskUnassign(s, taskId, requestOk) ==
  /\ \E task \in MyTaskCards(s) :
       task.id = taskId /\ "Unassign" \in TaskCard(s, task, "my-tasks")
  /\ LET r == IF requestOk
              THEN rpc(markTaskUnassignRpc, user[s], taskId, public_tasks, task_assignments)
              ELSE [error |-> TRUE, T |-> public_tasks, TA |-> task_assignments]
     IN  /\ public_tasks' = r.T
         /\ task_assignments' = r.TA
         /\ IF r.error
            THEN /\ last' = Did("markTaskUnassign", s, taskId, "Error")
                 /\ UNCHANGED views
            ELSE /\ fetchAllData(s, r.T, r.TA, reviews)
                 /\ last' = Did("markTaskUnassign", s, taskId, "Task Unassigned")
  /\ UNCHANGED <<auth_users, public_users, reviews, nextAssignmentId, modal, pending>>

\* ---------------------------------------------------------------- reviews
\* the "Leave Review" button: setSelectedTask(task); setReviewModalOpen(true)
LeaveReview(s, task, type) ==
  /\ \/ type = "my-tasks" /\ task \in MyTaskCards(s)
     \/ type = "assigned-to-me" /\ task \in AssignedCards(s)
  /\ "Leave Review" \in TaskCard(s, task, type)
  /\ selectedTask' = [selectedTask EXCEPT ![s] = <<task>>]
  /\ reviewModalOpen' = [reviewModalOpen EXCEPT ![s] = TRUE]
  /\ last' = Did("LeaveReview", s, task.id, NULL)
  /\ UNCHANGED <<db, views, reviewRequest, pending>>

\* computedRevieweeId; "" when none can be determined
computedRevieweeId(s) ==
  IF selectedTask[s] = << >> THEN ""
  ELSE LET st == selectedTask[s][1] IN
       IF user[s] = st.poster_id
       THEN (IF FirstTaskerId(st) = NULL THEN "" ELSE FirstTaskerId(st))
       ELSE st.poster_id

\* the ReviewModal is mounted, and shown
ReviewModalMounted(s) == selectedTask[s] # << >> /\ computedRevieweeId(s) # ""

\* the reviews insert as the database performs it
InsertReviewOk(uid, row, T, TA) ==
  /\ UsersCanCreateReviews(uid, row, T, TA)
  /\ row.task_id \in DOMAIN T
  /\ row.reviewer_id \in DOMAIN public_users
  /\ row.reviewee_id \in DOMAIN public_users
  /\ row.rating >= 1 /\ row.rating <= 5

NewReviewId == Cardinality(reviews) + 1

\* ReviewModal's loading state: true from setLoading(true) until the
\* "finally" of handleSubmit
ReviewModalLoading(s) == reviewRequest[s] # << >>

\* "if (rating === 0)": whether handleSubmit returns before doing anything
handleSubmitAcceptsNoRating(rating) == FALSE

handleSubmitReturnsEarly(rating) == rating = 0

\* ReviewModal.handleSubmit with its requests answered at once; authOk =
\* FALSE is auth.getUser() giving no user
handleSubmit(s, rating, authOk, requestOk) ==
  /\ ReviewModalMounted(s) /\ reviewModalOpen[s]
  /\ Cardinality(reviews) < MaxReviews
  /\ IF handleSubmitReturnsEarly(rating)
     THEN /\ last' = Did("handleSubmit", s, selectedTask[s][1].id, "Please select a rating")
          /\ UNCHANGED <<reviews, views, modal, pending>>
     ELSE LET row == [task_id |-> selectedTask[s][1].id, reviewer_id |-> user[s],
                      reviewee_id |-> computedRevieweeId(s), rating |-> rating]
          IN  IF authOk /\ requestOk
                 /\ InsertReviewOk(user[s], row, public_tasks, task_assignments)
              THEN LET R == reviews \cup
                             {[id |-> NewReviewId, task_id |-> row.task_id,
                               reviewer_id |-> row.reviewer_id,
                               reviewee_id |-> row.reviewee_id, rating |-> row.rating]}
                   IN  /\ reviews' = R
                       /\ selectedTask' = [selectedTask EXCEPT ![s] = << >>]
                       /\ reviewModalOpen' = [reviewModalOpen EXCEPT ![s] = FALSE]
                       /\ fetchAllData(s, public_tasks, task_assignments, R)
                       /\ UNCHANGED <<reviewRequest, pending>>
                       /\ last' = Did("handleSubmit", s, row.task_id, "Review Submitted!")
              ELSE /\ last' = Did("handleSubmit", s, row.task_id, "Error")
                   /\ UNCHANGED <<reviews, views, modal, pending>>
  /\ UNCHANGED <<auth_users, public_users, public_tasks, task_assignments, nextAssignmentId>>

Next ==
  \/ \E s \in Sessions : Load(s)
  \/ \E s \in Sessions, f \in DashboardForms : CreateTask(s, f, TRUE)
  \/ \E s \in Sessions, t \in TaskIds, ok \in BOOLEAN : acceptTask(s, t, ok)
  \/ \E s \in Sessions, t \in TaskIds, ok \in BOOLEAN : markTaskComplete(s, t, ok)
  \/ \E s \in Sessions, t \in TaskIds, ok \in BOOLEAN : markTaskUnassign(s, t, ok)
  \/ \E s \in Sessions, type \in {"my-tasks", "assigned-to-me"} :
       \E task \in MyTaskCards(s) \cup AssignedCards(s) : LeaveReview(s, task, type)
  \/ \E s \in Sessions, r \in Ratings, a \in BOOLEAN, ok \in BOOLEAN : handleSubmit(s, r, a, ok)

\* the dashboard: any number of sessions loading and using it
Spec == Init /\ [][Next]_vars

\* one session of each of the two users who have one
OneSessionEach == {"s1", "s2"}

\* --------------------------------------- CreateTaskModal, every form content
NextCreate ==
  \E s \in OneSessionEach, f \in Forms, ok \in BOOLEAN : CreateTask(s, f, ok)

SpecCreate == Init /\ [][NextCreate]_vars

\* ------------------------------------------- ReviewModal, request by request
\* ReviewModal.handleSubmit up to its first await: the submit button is
\* disabled while loading; with no star selected a toast is shown and the
\* handler returns; otherwise loading is set and the request is under way.
\* The record of the step keeps the rating submitted.
handleSubmitStart(s, rating) ==
  /\ ReviewModalMounted(s) /\ reviewModalOpen[s] /\ ~ReviewModalLoading(s)
  /\ Cardinality(reviews) + Cardinality({x \in Sessions : ReviewModalLoading(x)}) < MaxReviews
  /\ IF handleSubmitReturnsEarly(rating)
     THEN /\ last' = Did("handleSubmitStart", s, rating, "Please select a rating")
          /\ UNCHANGED reviewRequest
     ELSE /\ reviewRequest' =
               [reviewRequest EXCEPT ![s] =
                  <<[task_id |-> selectedTask[s][1].id,
                     reviewee_id |-> computedRevieweeId(s), rating |-> rating]>>]
          /\ last' = Did("handleSubmitStart", s, rating, NULL)
  /\ UNCHANGED <<db, views, selectedTask, reviewModalOpen, pending>>

\* "if (!reviewerIdFromAuth) throw" and "if (error) throw error": whether
\* handleSubmit takes its catch branch
handleSubmitIgnoresError(notAuthenticated, error) == notAuthenticated

handleSubmitThrows(notAuthenticated, error) == notAuthenticated \/ error

\* the rest of ReviewModal.handleSubmit, when its requests have answered:
\* authOk = FALSE is auth.getUser() giving no user, requestOk = FALSE an
\* insert request that does not reach the database.  On success
\* onReviewSubmitted runs (handleOnReviewSubmitted of the Dashboard) and
\* onOpenChange(false); in every case loading is reset.
handleSubmitDone(s, authOk, requestOk) ==
  /\ ReviewModalLoading(s)
  /\ LET req == reviewRequest[s][1]
         row == [task_id |-> req.task_id, reviewer_id |-> user[s],
                 reviewee_id |-> req.reviewee_id, rating |-> req.rating]
         error == ~(authOk /\ requestOk
                    /\ InsertReviewOk(user[s], row, public_tasks, task_assignments))
         R == IF error THEN reviews
              ELSE reviews \cup
                     {[id |-> NewReviewId, task_id |-> row.task_id,
                       reviewer_id |-> row.reviewer_id,
                       reviewee_id |-> row.reviewee_id, rating |-> row.rating]}
         arg == [task_id |-> row.task_id, authOk |-> authOk, requestOk |-> requestOk]
     IN  /\ reviews' = R
         /\ IF handleSubmitThrows(~authOk, error)
            THEN /\ last' = Did("handleSubmitDone", s, arg, "Error")
                 /\ UNCHANGED <<views, selectedTask, reviewModalOpen>>
            ELSE /\ selectedTask' = [selectedTask EXCEPT ![s] = << >>]
                 /\ reviewModalOpen' = [reviewModalOpen EXCEPT ![s] = FALSE]
                 /\ fetchAllData(s, public_tasks, task_assignments, R)
                 /\ last' = Did("handleSubmitDone", s, arg, "Review Submitted!")
  /\ reviewRequest' = [reviewRequest EXCEPT ![s] = << >>]
  /\ UNCHANGED <<auth_users, public_users, public_tasks, task_assignments,
                 nextAssignmentId, pending>>

\* the values the star picker can hold when the form is submitted
StarRatings == {0, 1, 5}

\* the dashboard of one poster and one tasker, with the ReviewModal's
\* requests taking time
NextReview ==
  \/ \E s \in OneSessionEach : Load(s)
  \/ \E s \in OneSessionEach, f \in DashboardForms : CreateTask(s, f, TRUE)
  \/ \E s \in OneSessionEach, t \in TaskIds : acceptTask(s, t, TRUE)
  \/ \E s \in OneSessionEach, t \in TaskIds : markTaskComplete(s, t, TRUE)
  \/ \E s \in OneSessionEach, t \in TaskIds : markTaskUnassign(s, t, TRUE)
  \/ \E s \in OneSessionEach, type \in {"my-tasks", "assigned-to-me"} :
       \E task \in MyTaskCards(s) \cup AssignedCards(s) : LeaveReview(s, task, type)
  \/ \E s \in OneSessionEach, r \in StarRatings : handleSubmitStart(s, r)
  \/ \E s \in OneSessionEach, a \in BOOLEAN, ok \in BOOLEAN : handleSubmitDone(s, a, ok)

SpecReview == Init /\ [][NextReview]_vars

\* ==================================================== direct table access
\* Every signed-in caller can send these requests straight to the backend;
\* only the policies, constraints and procedures stand between a request
\* and the tables.  The sessions' lists play no part.

\* insert into tasks (req): the columns the request names, defaults for
\* the others, then the policy and the constraints
ApiInsertTask(uid, req) ==
  /\ NewTaskId \in TaskIds
  /\ LET row == TaskDefaults(req) IN
     IF InsertTaskOk(uid, row)
     THEN /\ public_tasks' = (NewTaskId :> row) @@ public_tasks
          /\ last' = Called("insert tasks", uid, NULL, "ok")
     ELSE /\ last' = Called("insert tasks", uid, NULL, "error")
          /\ UNCHANGED public_tasks
  /\ UNCHANGED <<auth_users, public_users, task_assignments, reviews,
                 nextAssignmentId, views, modal, pending>>

\* what "update tasks set <set> where id = t" does for caller uid under
\* the update policy: a row the policy hides is not updated and no error
\* is raised; a new row that fails the policy or a constraint is an error
UpdateTaskRows(uid, t, set, T) ==
  LET new == [c \in DOMAIN T[t] |-> IF c \in DOMAIN set THEN set[c] ELSE T[t][c]]
  IN  IF ~PostersCanUpdateOwnTasks(uid, T[t]) THEN [error |-> FALSE, rows |-> 0, T |-> T]
      ELSE IF PostersCanUpdateOwnTasks(uid, new) /\ TasksConstraints(new, public_users)
      THEN [error |-> FALSE, rows |-> 1, T |-> [T EXCEPT ![t] = new]]
      ELSE [error |-> TRUE, rows |-> 0, T |-> T]

\* update tasks set ... where id = t, sent by caller uid; the outcome
\* records the number of rows updated
ApiUpdateTask(uid, t, set) ==
  /\ t \in DOMAIN public_tasks
  /\ LET r == UpdateTaskRows(uid, t, set, public_tasks) IN
       /\ public_tasks' = r.T
       /\ last' = Called("update tasks", uid, r.rows, IF r.error THEN "error" ELSE "ok")
  /\ UNCHANGED <<auth_users, public_users, task_assignments, reviews,
                 nextAssignmentId, views, modal, pending>>

\* delete from tasks where id = t, sent by caller uid; the rows of
\* task_assignments and reviews that reference the task go with it
\* ("on delete cascade")
ApiDeleteTask(uid, t) ==
  /\ t \in DOMAIN public_tasks
  /\ IF PostersCanDeleteOwnTasks(uid, public_tasks[t])
     THEN /\ public_tasks' = [x \in DOMAIN public_tasks \ {t} |-> public_tasks[x]]
          /\ task_assignments' = {a \in task_assignments : a.task_id # t}
          /\ reviews' = {r \in reviews : r.task_id # t}
          /\ last' = Called("delete tasks", uid, 1, "ok")
     ELSE /\ last' = Called("delete tasks", uid, 0, "ok")
          /\ UNCHANGED <<public_tasks, task_assignments, reviews>>
  /\ UNCHANGED <<auth_users, public_users, nextAssignmentId, views, modal, pending>>

ApiInsertAssignment(uid, row) ==
  /\ nextAssignmentId \in AssignmentIds
  /\ IF InsertAssignmentOk(uid, row, public_tasks)
     THEN /\ task_assignments' = task_assignments \cup
                {[id |-> nextAssignmentId, task_id |-> row.task_id,
                  tasker_id |-> row.tasker_id, completed_at |-> NULL]}
          /\ public_tasks' = AssignmentStatusTrigger(public_tasks, row)
          /\ nextAssignmentId' = nextAssignmentId + 1
          /\ last' = Called("insert task_assignments", uid, NULL, "ok")
     ELSE /\ last' = Called("insert task_assignments", uid, NULL, "error")
          /\ UNCHANGED <<public_tasks, task_assignments, nextAssignmentId>>
  /\ UNCHANGED <<auth_users, public_users, reviews, views, modal, pending>>

\* update task_assignments set <set> where id = ..., sent by caller uid: a
\* row the policy hides from the caller is not updated and no error is
\* raised; a new row that fails the policy or a foreign key is an error.
\* The outcome records the number of rows updated.
ApiUpdateAssignment(uid, id, set) ==
  /\ \E a \in task_assignments : a.id = id
  /\ LET old == CHOOSE a \in task_assignments : a.id = id
         new == [c \in DOMAIN old |-> IF c \in DOMAIN set THEN set[c] ELSE old[c]]
     IN  IF ~TaskersCanUpdateAssignments(uid, old)
         THEN /\ last' = Called("update task_assignments", uid, 0, "ok")
              /\ UNCHANGED task_assignments
         ELSE IF /\ TaskersCanUpdateAssignments(uid, new)
                 /\ new.tasker_id \in DOMAIN public_users
         THEN /\ task_assignments' = (task_assignments \ {old}) \cup {new}
              /\ last' = Called("update task_assignments", uid, 1, "ok")
         ELSE /\ last' = Called("update task_assignments", uid, 0, "error")
              /\ UNCHANGED task_assignments
  /\ UNCHANGED <<auth_users, public_users, public_tasks, reviews,
                 nextAssignmentId, views, modal, pending>>

\* select * from task_assignments, sent by caller uid: the rows the select
\* policy lets the caller read
SelectAssignments(uid, T, TA) == {a \in TA : UsersCanViewAssignments(uid, a, T)}

ApiSelectAssignments(uid) ==
  /\ last' = Called("select task_assignments", uid,
                    SelectAssignments(uid, public_tasks, task_assignments), "ok")
  /\ UNCHANGED <<db, views, modal, pending>>

ApiRpc(fn, uid, t) ==
  /\ LET r == rpc(fn, uid, t, public_tasks, task_assignments) IN
       /\ public_tasks' = r.T
       /\ task_assignments' = r.TA
       /\ last' = Called(fn, uid, NULL, IF r.error THEN "error" ELSE "ok")
  /\ UNCHANGED <<auth_users, public_users, reviews, nextAssignmentId, views, modal, pending>>

ApiInsertReview(uid, row) ==
  /\ Cardinality(reviews) < MaxApiReviews
  /\ IF InsertReviewOk(uid, row, public_tasks, task_assignments)
     THEN /\ reviews' = reviews \cup
                {[id |-> NewReviewId, task_id |-> row.task_id,
                  reviewer_id |-> row.reviewer_id,
                  reviewee_id |-> row.reviewee_id, rating |-> row.rating]}
          /\ last' = Called("insert reviews", uid, NULL, "ok")
     ELSE /\ last' = Called("insert reviews", uid, NULL, "error")
          /\ UNCHANGED reviews
  /\ UNCHANGED <<auth_users, public_users, public_tasks, task_assignments,
                 nextAssignmentId, views, modal, pending>>

\* requests on every table, with task rows inserted as the dashboard does
NextApi ==
  \/ \E uid \in ApiUsers, req \in [poster_id : ApiUsers, price : {10}] :
       Cardinality(DOMAIN public_tasks) < MaxTasks /\ ApiInsertTask(uid, req)
  \/ \E uid \in ApiUsers, t \in TaskIds, u \in ApiUsers :
       ApiInsertAssignment(uid, [task_id |-> t, tasker_id |-> u])
  \/ \E uid \in ApiUsers, id \in AssignmentIds, c \in {NULL, Timestamp} :
       ApiUpdateAssignment(uid, id, [completed_at |-> c])
  \/ \E fn \in {"mark_task_completed", "mark_task_unassign"}, uid \in ApiUsers, t \in TaskIds :
       ApiRpc(fn, uid, t)
  \/ \E uid \in ApiUsers, t \in TaskIds, r \in ApiUsers, e \in ApiUsers, n \in {0, 5, 6} :
       ApiInsertReview(uid, [task_id |-> t, reviewer_id |-> r, reviewee_id |-> e, rating |-> n])

SpecApi == Init /\ [][NextApi]_vars

\* ------------------------------------------ the tasks and assignments tables
\* the task rows and updates tried: the status may be left out, NULL, or a
\* value outside the three; the price may be left out or negative
ApiStatuses == TaskStatuses \cup {NULL, "done"}
ApiTaskRequests ==
  [poster_id : ApiUsers, price : {10, -1}]
  \cup [poster_id : ApiUsers, price : {10}, status : {NULL, "done"}]
  \cup [poster_id : ApiUsers]
ApiTaskUpdates ==
  [status : ApiStatuses] \cup [poster_id : ApiUsers] \cup [price : {-1}]
ApiAssignmentUpdates ==
  [completed_at : {NULL, Timestamp}] \cup [tasker_id : ApiUsers]

\* every request on tasks and task_assignments, and the two procedures;
\* u3, who reads, is in no row
NextTables ==
  \/ \E uid \in ApiUsers, req \in ApiTaskRequests :
       Cardinality(DOMAIN public_tasks) < MaxTableTasks /\ ApiInsertTask(uid, req)
  \/ \E uid \in ApiUsers, t \in TaskIds, set \in ApiTaskUpdates : ApiUpdateTask(uid, t, set)
  \/ \E uid \in ApiUsers, t \in TaskIds : ApiDeleteTask(uid, t)
  \/ \E uid \in ApiUsers, t \in TaskIds, u \in ApiUsers :
       nextAssignmentId <= MaxTableAssignments
         /\ ApiInsertAssignment(uid, [task_id |-> t, tasker_id |-> u])
  \/ \E uid \in ApiUsers, id \in AssignmentIds, set \in ApiAssignmentUpdates :
       ApiUpdateAssignment(uid, id, set)
  \/ \E uid \in Users : ApiSelectAssignments(uid)
  \/ \E fn \in {"mark_task_completed", "mark_task_unassign"}, uid \in ApiUsers, t \in TaskIds :
       ApiRpc(fn, uid, t)

SpecTables == Init /\ [][NextTables]_vars

\* ================================================================== signup
\* public.handle_new_user() as first created: a plain insert, which fails
\* on an id that already has a profile
handle_new_user_v1(new, PU) ==
  LET name == IF new.name # NULL THEN new.name ELSE new.email IN
  IF name = NULL \/ new.id \in DOMAIN PU
  THEN [error |-> TRUE, PU |-> PU]
  ELSE [error |-> FALSE,
        PU |-> (new.id :> [name |-> name, phone |-> NULL, role |-> "both"]) @@ PU]

\* the function without nullif: an empty phone is stored as it is
handle_new_user_keeps_empty_phone(new, PU) ==
  LET name == IF new.name # NULL THEN new.name ELSE new.email IN
  IF name = NULL THEN [error |-> TRUE, PU |-> PU]
  ELSE IF new.id \in DOMAIN PU THEN [error |-> FALSE, PU |-> PU]
  ELSE [error |-> FALSE,
        PU |-> (new.id :> [name |-> name, phone |-> new.phone, role |-> "both"]) @@ PU]

\* public.handle_new_user() as the last migration leaves it, run for the
\* auth.users row new against the profile table PU: whether it raises, and
\* the table afterwards.  name is "not null"; "on conflict (id) do nothing".
handle_new_user(new, PU) ==
  LET name == IF new.name # NULL THEN new.name ELSE new.email
      phone == IF new.phone = "" THEN NULL ELSE new.phone
  IN  IF name = NULL THEN [error |-> TRUE, PU |-> PU]
      ELSE IF new.id \in DOMAIN PU THEN [error |-> FALSE, PU |-> PU]
      ELSE [error |-> FALSE,
            PU |-> (new.id :> [name |-> name, phone |-> phone, role |-> "both"]) @@ PU]

Restrict(f, S) == [x \in S |-> f[x]]

\* insert into auth.users, with the trigger on_auth_user_created running in
\* the same transaction: if the trigger raises, the insert is undone
AuthInsert(new) ==
  /\ new.id \notin DOMAIN auth_users
  /\ LET r == handle_new_user(new, public_users) IN
     IF r.error
     THEN /\ last' = Called("insert auth.users", new.id, new, "error")
          /\ UNCHANGED <<auth_users, public_users>>
     ELSE /\ auth_users' = (new.id :> [email |-> new.email, name |-> new.name,
                                       phone |-> new.phone]) @@ auth_users
          /\ public_users' = r.PU
          /\ last' = Called("insert auth.users", new.id, new, "ok")
  /\ UNCHANGED <<public_tasks, task_assignments, reviews, nextAssignmentId, views, modal, pending>>

\* delete from auth.users; every reference is "on delete cascade"
AuthDelete(id) ==
  /\ id \in DOMAIN auth_users
  /\ auth_users' = Restrict(auth_users, DOMAIN auth_users \ {id})
  /\ public_users' = Restrict(public_users, DOMAIN public_users \ {id})
  /\ LET T == Restrict(public_tasks,
                       {t \in DOMAIN public_tasks : public_tasks[t].poster_id # id})
     IN  /\ public_tasks' = T
         /\ task_assignments' =
              {a \in task_assignments : a.task_id \in DOMAIN T /\ a.tasker_id # id}
         /\ reviews' = {r \in reviews : /\ r.task_id \in DOMAIN T
                                        /\ r.reviewer_id # id /\ r.reviewee_id # id}
  /\ last' = Called("delete auth.users", id, NULL, "ok")
  /\ UNCHANGED <<nextAssignmentId, views, modal, pending>>

\* the trigger function run for a row new of an id that is in auth.users,
\* whatever the profile table holds
RunHandleNewUser(new) ==
  /\ new.id \in DOMAIN auth_users
  /\ LET r == handle_new_user(new, public_users) IN
       /\ public_users' = r.PU
       /\ last' = Called("handle_new_user", new.id, new, IF r.error THEN "error" ELSE "ok")
  /\ UNCHANGED <<auth_users, public_tasks, task_assignments, reviews,
                 nextAssignmentId, views, modal, pending>>

InitSignup ==
  /\ auth_users = << >>
  /\ public_users = << >>
  /\ public_tasks = << >>
  /\ task_assignments = {}
  /\ reviews = {}
  /\ nextAssignmentId = 1
  /\ tasks = [s \in Sessions |-> {}]
  /\ myTasks = [s \in Sessions |-> {}]
  /\ assignedTasks = [s \in Sessions |-> {}]
  /\ myReviews = [s \in Sessions |-> {}]
  /\ selectedTask = [s \in Sessions |-> << >>]
  /\ reviewModalOpen = [s \in Sessions |-> FALSE]
  /\ reviewRequest = [s \in Sessions |-> << >>]
  /\ loading = [s \in Sessions |-> FALSE]
  /\ runs = [s \in Sessions |-> << >>]
  /\ timers = [s \in Sessions |-> 0]
  /\ failures = 0
  /\ last = [op |-> "init", s |-> NULL, uid |-> NULL, arg |-> NULL, outcome |-> NULL]

NextSignup ==
  \/ \E new \in NewAuthRecords : AuthInsert(new)
  \/ \E id \in Users : AuthDelete(id)
  \/ \E new \in NewAuthRecords : RunHandleNewUser(new)

SpecSignup == InitSignup /\ [][NextSignup]_vars

\* ===================================== fetchAllData, request by request
\* The session watched is the tasker's.
FetchSessions == {"s2"}

FetchNames == {"tasks", "myTasks", "assignedTasks", "myReviews"}

\* a fetchAllData run just started by handler "by": its four requests are
\* sent, none is answered (data), none has settled; superseded records the
\* lists that a run started later has set in the meantime
NewRun(by) == [by |-> by, data |-> << >>, settled |-> {}, superseded |-> {}]

\* what the four queries of a run of session s return from the tables as
\* they are now
FetchAnswers(s) ==
  {[tasks |-> fetchTasks(user[s], public_tasks),
    myTasks |-> m,
    assignedTasks |-> fetchAssignedTasks(user[s], public_tasks, task_assignments),
    myReviews |-> fetchMyReviews(user[s], reviews)] :
     m \in fetchMyTasks(user[s], public_tasks, task_assignments)}

\* Promise.all([...]).finally: with "|| true" the finally would run at the
\* first fetch that settles
PromiseAnySettled(settled) == settled # {}

\* Promise.all of the four fetches, none of which rejects (each has its own
\* try/catch): fulfilled when all four have settled
PromiseAllSettled(settled) == settled = FetchNames

\* the Dashboard just mounted with a signed-in user: loading is true and
\* the run of useEffect is under way.  Task 1, posted by u1 on the
\* dashboard, is open.
InitFetch ==
  /\ auth_users = [u \in Users |-> [email |-> "e1", name |-> "n1", phone |-> NULL]]
  /\ public_users = [u \in Users |-> Profile(u)]
  /\ public_tasks = (1 :> [poster_id |-> "u1", price |-> 10, status |-> "open",
                            deadline |-> NULL])
  /\ task_assignments = {}
  /\ reviews = {}
  /\ nextAssignmentId = 1
  /\ tasks = [s \in Sessions |-> {}]
  /\ myTasks = [s \in Sessions |-> {}]
  /\ assignedTasks = [s \in Sessions |-> {}]
  /\ myReviews = [s \in Sessions |-> {}]
  /\ selectedTask = [s \in Sessions |-> << >>]
  /\ reviewModalOpen = [s \in Sessions |-> FALSE]
  /\ reviewRequest = [s \in Sessions |-> << >>]
  /\ loading = [s \in Sessions |-> s \in FetchSessions]
  /\ runs = [s \in Sessions |-> IF s \in FetchSessions THEN <<NewRun("useEffect")>> ELSE << >>]
  /\ timers = [s \in Sessions |-> 0]
  /\ failures = 0
  /\ last = [op |-> "init", s |-> NULL, uid |-> NULL, arg |-> NULL, outcome |-> NULL]

\* acceptTask(taskId) up to its return: the insert, the toast, fetchAllData()
\* (setLoading(true) and the four requests sent) and setTimeout(..., 700).
\* The cards are not rendered while loading.
acceptTaskFetching(s, taskId, requestOk) ==
  /\ ~loading[s]
  /\ taskId \in tasks[s]
  /\ nextAssignmentId <= MaxAccepts
  /\ Len(runs[s]) + timers[s] + 2 <= MaxRuns
  /\ LET row == acceptTaskRow(s, taskId)
         assignError == ~(requestOk /\ InsertAssignmentOk(user[s], row, public_tasks))
     IN  IF acceptTaskThrows(assignError)
         THEN /\ last' = Did("acceptTask", s, taskId, "Error")
              /\ UNCHANGED <<public_tasks, task_assignments, nextAssignmentId, pending>>
         ELSE /\ task_assignments' = task_assignments \cup
                     {[id |-> nextAssignmentId, task_id |-> row.task_id,
                       tasker_id |-> row.tasker_id, completed_at |-> NULL]}
              /\ public_tasks' = AssignmentStatusTrigger(public_tasks, row)
              /\ nextAssignmentId' = nextAssignmentId + 1
              /\ loading' = [loading EXCEPT ![s] = TRUE]
              /\ runs' = [runs EXCEPT ![s] = Append(@, NewRun("acceptTask"))]
              /\ timers' = [timers EXCEPT ![s] = @ + 1]
              /\ UNCHANGED failures
              /\ last' = Did("acceptTask", s, taskId, "Task Accepted!")
  /\ UNCHANGED <<auth_users, public_users, reviews, views, modal>>

\* the callback of setTimeout runs: fetchAllData() once more
setTimeoutFires(s) ==
  /\ timers[s] > 0
  /\ timers' = [timers EXCEPT ![s] = @ - 1]
  /\ loading' = [loading EXCEPT ![s] = TRUE]
  /\ runs' = [runs EXCEPT ![s] = Append(@, NewRun("setTimeout"))]
  /\ last' = Did("setTimeout", s, NULL, NULL)
  /\ UNCHANGED <<db, views, modal, failures>>

\* the database answers the queries of the i-th run in flight; the four
\* queries of one run are answered from one state of the tables
fetchAnswered(s, i) ==
  /\ i \in 1..Len(runs[s])
  /\ runs[s][i].data = << >>
  /\ \E d \in FetchAnswers(s) : runs' = [runs EXCEPT ![s][i].data = <<d>>]
  /\ last' = Did("fetchAnswered", s, NULL, NULL)
  /\ UNCHANGED <<db, views, modal, loading, timers, failures>>

\* the sequence without its i-th element
RemoveAt(seq, i) == [k \in 1..(Len(seq) - 1) |-> IF k < i THEN seq[k] ELSE seq[k + 1]]

\* fetch f of the i-th run in flight settles.  ok: its answer has arrived
\* and the list is set from it; not ok: the request failed, the catch of the
\* fetch shows or logs the error and the list is left alone.  When the four
\* have settled, finally runs setLoading(false).  The record of the step
\* says whether the answer came late: after a run started later had set the
\* same list.
fetchSettled(s, i, f, ok) ==
  /\ i \in 1..Len(runs[s])
  /\ f \notin runs[s][i].settled
  /\ ok => runs[s][i].data # << >>
  /\ ~ok => failures < MaxFailures
  /\ failures' = IF ok THEN failures ELSE failures + 1
  /\ LET run == runs[s][i]
         settled == run.settled \cup {f}
         marked == [k \in 1..Len(runs[s]) |->
                      IF k = i THEN [run EXCEPT !.settled = settled]
                      ELSE IF ok /\ k < i
                      THEN [runs[s][k] EXCEPT !.superseded = @ \cup {f}]
                      ELSE runs[s][k]]
         set(list, name) == IF ok /\ f = name
                            THEN [list EXCEPT ![s] = run.data[1][name]] ELSE list
     IN  /\ tasks' = set(tasks, "tasks")
         /\ myTasks' = set(myTasks, "myTasks")
         /\ assignedTasks' = set(assignedTasks, "assignedTasks")
         /\ myReviews' = set(myReviews, "myReviews")
         /\ IF PromiseAllSettled(settled)
            THEN /\ runs' = [runs EXCEPT ![s] = RemoveAt(marked, i)]
                 /\ loading' = [loading EXCEPT ![s] = FALSE]
            ELSE /\ runs' = [runs EXCEPT ![s] = marked]
                 /\ UNCHANGED loading
         /\ last' = Did("fetchSettled", s,
                        [fetch |-> f, ok |-> ok,
                         late |-> ok /\ f \in run.superseded],
                        IF ok \/ f = "myReviews" THEN NULL ELSE "Error")
  /\ UNCHANGED <<db, modal, timers>>

\* the tasker's dashboard with its fetches in flight, next to the requests
\* of the poster u1: the two procedures behind "Mark Complete" and "Unassign"
NextFetch ==
  \/ \E s \in FetchSessions, t \in TaskIds, ok \in BOOLEAN : acceptTaskFetching(s, t, ok)
  \/ \E s \in FetchSessions : setTimeoutFires(s)
  \/ \E s \in FetchSessions, i \in 1..MaxRuns : fetchAnswered(s, i)
  \/ \E s \in FetchSessions, i \in 1..MaxRuns, f \in FetchNames, ok \in BOOLEAN :
       fetchSettled(s, i, f, ok)
  \/ \E fn \in {"mark_task_completed", "mark_task_unassign"}, t \in DOMAIN public_tasks :
       ApiRpc(fn, "u1", t)

SpecFetch == InitFetch /\ [][NextFetch]_vars

\* every request is answered or fails in the end
FetchFairness ==
  \A s \in FetchSessions :
    /\ WF_vars(\E i \in 1..MaxRuns : fetchAnswered(s, i))
    /\ WF_vars(\E i \in 1..MaxRuns, f \in FetchNames, ok \in BOOLEAN : fetchSettled(s, i, f, ok))

SpecFetchLive == InitFetch /\ [][NextFetch]_vars /\ FetchFairness

\* ================================================================== claims
StatusIn(T, t) == T[t].status

C3_AcceptInsertsOneRow ==
  [][last'.op = "acceptTask" =>
       IF last'.outcome = "Task Accepted!"
       THEN \E a \in task_assignments' :
              /\ a \notin task_assignments
              /\ task_assignments' = task_assignments \cup {a}
              /\ a.task_id = last'.arg /\ a.tasker_id = last'.uid
              /\ a.completed_at = NULL
       ELSE /\ task_assignments' = task_assignments
            /\ last'.outcome = "Error"]_vars

C3_Witness ==
  /\ last.op = "acceptTask" /\ last.outcome = "Task Accepted!"
  /\ \E a \in task_assignments :
       a.task_id = last.arg /\ a.tasker_id = last.uid /\ a.completed_at = NULL

C6_ReviewOnlyForCompletedTask ==
  [][last'.op = "insert reviews" =>
       /\ \A r \in reviews' \ reviews :
            /\ r.reviewer_id = last'.uid
            /\ \E ta \in AssignmentsOf(task_assignments, r.task_id) :
                 /\ ta.completed_at # NULL
                 /\ (r.reviewer_id = public_tasks[r.task_id].poster_id
                       \/ r.reviewer_id = ta.tasker_id)
       /\ last'.outcome = "error" => reviews' = reviews]_vars

\* C7: in both tabs a card shows "Leave Review" exactly when the task's
\* assignment is completed and the user has not reviewed the task, and
\* "Review Submitted" exactly when it is completed and already reviewed.
C7_ReviewButtonsInBothTabs ==
  \A s \in Sessions :
    /\ \A task \in MyTaskCards(s) :
         LET b == TaskCard(s, task, "my-tasks")
             completed == FirstCompletedAt(task) # NULL
         IN  /\ "Leave Review" \in b <=> (completed /\ ~alreadyReviewed(s, task))
             /\ "Review Submitted" \in b <=> (completed /\ alreadyReviewed(s, task))
    /\ \A a \in assignedTasks[s] :
         LET b == TaskCard(s, a.tasks, "assigned-to-me")
             completed == a.completed_at # NULL
         IN  /\ "Leave Review" \in b <=> (completed /\ ~alreadyReviewed(s, a.tasks))
             /\ "Review Submitted" \in b <=> (completed /\ alreadyReviewed(s, a.tasks))

\* C8: the reviews table never holds two rows with the same task and
\* reviewer.
C8_OneReviewPerTaskAndReviewer ==
  \A r1 \in reviews, r2 \in reviews :
    (r1.task_id = r2.task_id /\ r1.reviewer_id = r2.reviewer_id) => r1 = r2

\* C9: every id in auth.users has a profile; and an insert into auth.users
\* for an id without a profile stores role 'both', the metadata name or
\* else the email, and the metadata phone, null when missing or empty.
C9_SignupCreatesProfile ==
  [][/\ DOMAIN auth_users' \subseteq DOMAIN public_users'
     /\ \A id \in DOMAIN auth_users' \ DOMAIN auth_users :
          /\ id \in DOMAIN public_users'
          /\ id \notin DOMAIN public_users =>
               LET new == auth_users'[id] IN
               public_users'[id] =
                 [role |-> "both",
                  name |-> IF new.name # NULL THEN new.name ELSE new.email,
                  phone |-> IF new.phone \in {NULL, ""} THEN NULL ELSE new.phone]]_vars

C9_Witness ==
  /\ last.op = "insert auth.users" /\ last.outcome = "ok"
  /\ last.arg.phone = "" /\ last.arg.name = NULL
  /\ public_users[last.uid] = [role |-> "both", name |-> last.arg.email, phone |-> NULL]

TasksInserted == {t \in DOMAIN public_tasks' : t \notin DOMAIN public_tasks}
TasksTouched ==
  {t \in DOMAIN public_tasks :
     t \notin DOMAIN public_tasks' \/ public_tasks'[t] # public_tasks[t]}
OnlyPosterWrote ==
  /\ \A t \in TasksInserted : public_tasks'[t].poster_id = last'.uid
  /\ \A t \in TasksTouched : public_tasks[t].poster_id = last'.uid

C12_OnlyTaskerWritesAssignments ==
  [][last'.op \in {"insert task_assignments", "update task_assignments"} =>
       /\ \A a \in task_assignments' \ task_assignments : a.tasker_id = last'.uid
       /\ \A a \in task_assignments \ task_assignments' : a.tasker_id = last'.uid]_vars

\* an update sent by a caller who is not the tasker of the row updated no row
C12_Witness ==
  /\ last.op = "update task_assignments" /\ last.arg = 0 /\ last.outcome = "ok"
  /\ \E a \in task_assignments : a.tasker_id # last.uid

\* ------------------------------------------------------------------- C13
\* C13: what a caller reads from task_assignments is exactly the rows of
\* which the caller is the tasker or whose task the caller posted; every
\* other caller reads none of them.
C13_AssignmentsReadByTaskerOrPoster ==
  last.op = "select task_assignments" =>
    last.arg = {a \in task_assignments :
                  \/ a.tasker_id = last.uid
                  \/ /\ a.task_id \in DOMAIN public_tasks
                     /\ public_tasks[a.task_id].poster_id = last.uid}

\* a caller who is neither tasker nor poster read nothing while the tasker
\* of a row would read it
C13_Witness ==
  /\ last.op = "select task_assignments" /\ last.arg = {}
  /\ \E a \in task_assignments :
       a.tasker_id # public_tasks[a.task_id].poster_id

\* ------------------------------------------------------------------- C14
\* C14: in every reachable state every task row has a status that is one of
\* 'open', 'accepted', 'completed' (never absent or another value), a price
\* that is present and not negative, and a deadline that is absent or a
\* time; a task created through CreateTaskModal starts with status 'open'
\* and poster_id equal to the creating user.
C14_TaskRowsWellFormed ==
  /\ \A t \in DOMAIN public_tasks :
       /\ public_tasks[t].status \in TaskStatuses
       /\ "price" \in DOMAIN public_tasks[t] /\ public_tasks[t].price >= 0
       /\ public_tasks[t].deadline \in {NULL, Timestamp}
  /\ (last.op = "createTask" /\ last.outcome = "Task Created!") =>
       \E t \in DOMAIN public_tasks :
         public_tasks[t].status = "open" /\ public_tasks[t].poster_id = last.uid

C16_Valid(f) ==
  /\ Len(trim(f.title)) >= 5 /\ Len(trim(f.title)) <= 100
  /\ Len(trim(f.description)) <= 500
  /\ f.price # << >>
  /\ ~parseFloat(f.price).nan
  /\ parseFloat(f.price).num >= 10 /\ parseFloat(f.price).num <= 10000

RefetchToasts == {"Task Accepted!", "Task Completed!", "Task Unassigned", "Review Submitted!"}

CardsOfTab(s, type) ==
  CASE type = "browse" -> {[id |-> t] : t \in tasks[s]}
    [] type = "my-tasks" -> MyTaskCards(s)
    [] type = "assigned-to-me" -> AssignedCards(s)

\* what the cards of every session show
C18_Cards ==
  \A s \in Sessions : \A type \in {"browse", "my-tasks", "assigned-to-me"} :
    \A task \in CardsOfTab(s, type) :
      /\ TaskCard(s, task, type) \cap {"Mark as Complete", "Unassign"} # {} =>
           /\ type = "my-tasks"
           /\ task.poster_id = user[s]
           /\ task.status = "accepted"
      /\ "Unassign" \in TaskCard(s, task, type) =>
           \A i \in DOMAIN task.task_assignments :
             i = 1 => task.task_assignments[i].completed_at = NULL

CurrentAssignments(t) ==
  {a \in AssignmentsOf(task_assignments, t) : a.completed_at = NULL}

\* C19: in every reachable state a task has at most one assignment that is
\* not completed, so of two accepts of the same open task, sent from two
\* Browse lists that both show it, at most one succeeds.
C19_AtMostOneCurrentTasker ==
  \A t \in DOMAIN public_tasks : Cardinality(CurrentAssignments(t)) <= 1

\* ------------------------------------------------------------------- C20
\* C20: in every reachable state a task's status is 'open' exactly when it
\* has no assignment, 'accepted' exactly when it has an assignment with
\* completed_at unset, and 'completed' exactly when it has assignments and
\* all of them have completed_at set.
C20_StatusAgreesWithAssignments ==
  \A t \in DOMAIN public_tasks :
    LET all == AssignmentsOf(task_assignments, t)
        status == public_tasks[t].status
    IN  /\ status = "open" <=> all = {}
        /\ status = "accepted" <=> CurrentAssignments(t) # {}
        /\ status = "completed" <=> (all # {} /\ CurrentAssignments(t) = {})

\* ------------------------------------------------------------------- C21
\* C21: in every reachable state there is no task_assignments row whose
\* tasker_id equals the poster_id of its task.
C21_NoTaskerOfOwnTask ==
  \A a \in task_assignments :
    a.task_id \in DOMAIN public_tasks => a.tasker_id # public_tasks[a.task_id].poster_id

\* ------------------------------------------------------------------- C22
\* the dashboard of NextReview, next to a signed-in user who sends the
\* task_assignments insert of acceptTask straight to the table API
NextReviewApi ==
  \/ NextReview
  \/ \E uid \in ApiUsers, t \in TaskIds :
       ApiInsertAssignment(uid, [task_id |-> t, tasker_id |-> uid])

SpecReviewApi == Init /\ [][NextReviewApi]_vars

\* C22: every review stored by the dashboard is addressed to the other party
\* of its task: written by the task's poster it names the tasker of an
\* assignment of the task, written by anyone else it names the poster; a
\* request is only sent with a reviewee determined, and reviewer and reviewee
\* are never the same user.
C22_ReviewAddressedToOtherParty ==
  /\ \A r \in reviews :
       /\ r.reviewee_id \in Users
       /\ r.reviewer_id # r.reviewee_id
       /\ r.task_id \in DOMAIN public_tasks =>
            IF r.reviewer_id = public_tasks[r.task_id].poster_id
            THEN \E a \in AssignmentsOf(task_assignments, r.task_id) :
                   a.tasker_id = r.reviewee_id
            ELSE r.reviewee_id = public_tasks[r.task_id].poster_id
  /\ \A s \in Sessions :
       ReviewModalLoading(s) =>
         /\ reviewRequest[s][1].reviewee_id \in Users
         /\ reviewRequest[s][1].reviewee_id # user[s]

\* ------------------------------------------------------------------- C23
\* C23: after a successful acceptTask two fetchAllData runs are started, and
\* an answer of the run started first that arrives after the run started
\* later has set the same list changes nothing: once both have settled the
\* lists are those of the later run.
C23_EarlierRunNeverOverwrites ==
  [][/\ (last'.op = "acceptTask" /\ last'.outcome = "Task Accepted!"
         /\ last'.s \in FetchSessions) =>
          /\ Len(runs'[last'.s]) = Len(runs[last'.s]) + 1
          /\ timers'[last'.s] = timers[last'.s] + 1
     /\ (last'.op = "fetchSettled" /\ last'.arg.late) => views' = views]_vars

\* ------------------------------------------------------------------- C24
\* one step of session s seen from its loading flag and its lists
C24_Step(s) ==
  /\ Len(runs'[s]) > Len(runs[s]) => loading'[s]
  /\ (loading[s] /\ ~loading'[s]) => (last'.op = "fetchSettled" /\ last'.s = s)
  /\ (last'.op = "fetchSettled" /\ last'.s = s) =>
       /\ \E i \in 1..Len(runs[s]) :
            /\ last'.arg.fetch \notin runs[s][i].settled
            /\ IF runs[s][i].settled \cup {last'.arg.fetch} = FetchNames
               THEN ~loading'[s] /\ Len(runs'[s]) = Len(runs[s]) - 1
               ELSE loading'[s] = loading[s] /\ Len(runs'[s]) = Len(runs[s])
       /\ (~last'.arg.ok \/ last'.arg.fetch # "tasks") => tasks'[s] = tasks[s]
       /\ (~last'.arg.ok \/ last'.arg.fetch # "myTasks") => myTasks'[s] = myTasks[s]
       /\ (~last'.arg.ok \/ last'.arg.fetch # "assignedTasks") =>
            assignedTasks'[s] = assignedTasks[s]
       /\ (~last'.arg.ok \/ last'.arg.fetch # "myReviews") => myReviews'[s] = myReviews[s]

\* C24: every fetchAllData run sets loading to true when it starts; loading
\* goes back to false only in the step in which the fourth fetch of a run
\* settles, and does so then, whether the fetches succeeded or failed; a
\* fetch that failed leaves every list as it was; while loading is true a
\* run is in flight, and loading never stays true forever.
C24_LoadingEndsAndFailuresKeepLists ==
  /\ [][\A s \in Sessions : C24_Step(s)]_vars
  /\ [](\A s \in Sessions : loading[s] => runs[s] # << >>)
  /\ \A s \in FetchSessions : loading[s] ~> ~loading[s]

\* the last fetch of a run has failed: loading is false, and the Browse list
\* still shows what an earlier run put there
C24_Witness ==
  /\ last.op = "fetchSettled" /\ ~last.arg.ok
  /\ ~loading[last.s] /\ runs[last.s] = << >>
  /\ tasks[last.s] # {}

\* ------------------------------------------------------------------- C25
\* C25: for a submission with a rating selected, ReviewModal's loading is
\* true from the start of the request until it is answered and false
\* afterwards; the review is stored, onReviewSubmitted has run and the modal
\* is closed together or not at all; when the caller is not authenticated or
\* the insert fails no review is stored, the lists are not refetched and
\* the modal stays open.
C25_SubmitStep(s) ==
  /\ (last'.op = "handleSubmitStart" /\ last'.s = s /\ last'.arg # 0) =>
       ~ReviewModalLoading(s) /\ ReviewModalLoading(s)'
  /\ (last'.op = "handleSubmitStart" /\ last'.s = s /\ last'.arg = 0) =>
       ~ReviewModalLoading(s)' /\ reviews' = reviews
  /\ (ReviewModalLoading(s) /\ ~(last'.op = "handleSubmitDone" /\ last'.s = s)) =>
       ReviewModalLoading(s)' /\ reviewModalOpen'[s]
  /\ (last'.op = "handleSubmitDone" /\ last'.s = s) =>
       /\ ReviewModalLoading(s) /\ ~ReviewModalLoading(s)'
       /\ (~last'.arg.authOk \/ ~last'.arg.requestOk) => reviews' = reviews
       /\ IF reviews' # reviews
          THEN /\ \E r \in reviews' \ reviews :
                    /\ reviews' = reviews \cup {r}
                    /\ r.task_id = reviewRequest[s][1].task_id
                    /\ r.reviewer_id = user[s]
                    /\ r.rating = reviewRequest[s][1].rating
               /\ ~reviewModalOpen'[s] /\ selectedTask'[s] = << >>
               /\ myReviews'[s] = fetchMyReviews(user[s], reviews')
               /\ last'.outcome = "Review Submitted!"
          ELSE /\ reviewModalOpen'[s] /\ selectedTask'[s] = selectedTask[s]
               /\ myReviews'[s] = myReviews[s] /\ myTasks'[s] = myTasks[s]
               /\ last'.outcome = "Error"

NextIntegrity ==
  \/ \E uid \in ApiUsers, req \in [poster_id : ApiUsers, price : {10}] :
       Cardinality(DOMAIN public_tasks) < MaxTableTasks /\ ApiInsertTask(uid, req)
  \/ \E uid \in ApiUsers, t \in TaskIds : ApiDeleteTask(uid, t)
  \/ \E uid \in ApiUsers, t \in TaskIds, u \in ApiUsers :
       nextAssignmentId <= MaxTableAssignments
         /\ ApiInsertAssignment(uid, [task_id |-> t, tasker_id |-> u])
  \/ \E uid \in ApiUsers, id \in AssignmentIds :
       ApiUpdateAssignment(uid, id, [completed_at |-> Timestamp])
  \/ \E uid \in ApiUsers, t \in TaskIds, e \in ApiUsers :
       ApiInsertReview(uid, [task_id |-> t, reviewer_id |-> uid, reviewee_id |-> e,
                             rating |-> 5])
  \/ \E id \in ApiUsers : AuthDelete(id)

SpecIntegrity == Init /\ [][NextIntegrity]_vars

\* C26: in every reachable state every profile belongs to an auth user,
\* every task's poster_id is an existing user, every assignment's task_id an
\* existing task and its tasker_id an existing user, and every review's
\* task_id an existing task and its reviewer_id and reviewee_id existing
\* users; so after a user or a task is deleted no row references it.
C26_ReferentialIntegrity ==
  /\ DOMAIN public_users \subseteq DOMAIN auth_users
  /\ \A t \in DOMAIN public_tasks : public_tasks[t].poster_id \in DOMAIN public_users
  /\ \A a \in task_assignments :
       a.task_id \in DOMAIN public_tasks /\ a.tasker_id \in DOMAIN public_users
  /\ \A r \in reviews :
       /\ r.task_id \in DOMAIN public_tasks
       /\ r.reviewer_id \in DOMAIN public_users
       /\ r.reviewee_id \in DOMAIN public_users

\* a user was deleted whose assignment went with them, the task staying
C26_Witness ==
  /\ last.op = "delete auth.users"
  /\ last.uid \notin DOMAIN public_users
  /\ nextAssignmentId > 1 /\ task_assignments = {}
  /\ DOMAIN public_tasks # {}

====
